---- MODULE Spec2Model ----
(***************************************************************************)
(* Model of ternary-logic-optimization.py: the encoding of a register      *)
(* machine into solver constraints (eval), the decoding of a solver model  *)
(* into a printed program (solve) and the search over instruction and      *)
(* cycle counts (solve_code, main).                                        *)
(*                                                                         *)
(* An 8-bit vector is the set of its one bits, a subset of 0..7: & is      *)
(* intersection, | is union, ~ is the complement within 0..7.              *)
(***************************************************************************)
EXTENDS Integers, Sequences, FiniteSets, TLC

\* ------------------------------------------------------------------ bounds
\* Largest num_insns whose queries the search model answers.
MaxInsns == 2
\* Largest number of instructions of an assignment in the encoder model.
MaxLen == 2
\* How far beyond the valid range a model value of the solver may lie.
Slack == 1

\* -------------------------------------------------------------- bit vectors
\* z3.BitVecVal(_, 8) and range(256)
Width == 8
NumCodes == 256

BitIdx == 0 .. (Width - 1)

\* The 8-bit vector of the integer x: bit k is set iff x has bit k.
BitVecVal(x) == {k \in BitIdx : ((x \div (2 ^ k)) % 2) = 1}

BvNot(a) == BitIdx \ a
BvAnd(a, b) == a \cap b
BvOr(a, b) == a \cup b
BvXor(a, b) == (a \ b) \cup (b \ a)

\* ---------------------------------------------------------------- catalog
ops == <<"set0", "set1", "not", "and", "or", "xor", "andnot", "ornot", "xornot">>

NumOps == Len(ops)

\* Faulty variant of OpEval: xornot without the complement
OpEvalXornotAsXor(opcode, a, b) ==
    CASE ops[opcode + 1] = "set0"   -> {}
      [] ops[opcode + 1] = "set1"   -> BitIdx
      [] ops[opcode + 1] = "not"    -> BvNot(a)
      [] ops[opcode + 1] = "and"    -> BvAnd(a, b)
      [] ops[opcode + 1] = "or"     -> BvOr(a, b)
      [] ops[opcode + 1] = "xor"    -> BvXor(a, b)
      [] ops[opcode + 1] = "andnot" -> BvAnd(a, BvNot(b))
      [] ops[opcode + 1] = "ornot"  -> BvOr(a, BvNot(b))
      [] ops[opcode + 1] = "xornot" -> BvXor(a, b)

\* ops[opcode].eval(a, b), opcode counted from 0 as in the source
OpEval(opcode, a, b) ==
    CASE ops[opcode + 1] = "set0"   -> {}                    \* 0b00000000
      [] ops[opcode + 1] = "set1"   -> BitIdx                \* 0b11111111
      [] ops[opcode + 1] = "not"    -> BvNot(a)
      [] ops[opcode + 1] = "and"    -> BvAnd(a, b)
      [] ops[opcode + 1] = "or"     -> BvOr(a, b)
      [] ops[opcode + 1] = "xor"    -> BvXor(a, b)
      [] ops[opcode + 1] = "andnot" -> BvAnd(a, BvNot(b))
      [] ops[opcode + 1] = "ornot"  -> BvOr(a, BvNot(b))
      [] ops[opcode + 1] = "xornot" -> BvXor(a, BvNot(b))

\* ---------------------------------------------------------------- encoder
\* regs = [A, B, C] with A = 0b11110000, B = 0b11001100, C = 0b10101010 and
\* their cycles [0, 0, 0] (Python index j is index j + 1 here)
InitRegs == << {4, 5, 6, 7}, {2, 3, 6, 7}, {1, 3, 5, 7} >>
InitCycles == <<0, 0, 0>>

\* in1/in2: regs[0], then for j = 1 .. len(regs)-1: If(r == j, regs[j], in)
RECURSIVE InChain(_, _, _, _)
InChain(r, regs, j, acc) ==
    IF j > Len(regs) - 1 THEN acc
    ELSE InChain(r, regs, j + 1, IF r = j THEN regs[j + 1] ELSE acc)

\* Faulty variant of In: the chain stops one register early
InShortChain(r, regs) == InChain(r, SubSeq(regs, 1, Len(regs) - 1), 1, regs[1])

In(r, regs) == InChain(r, regs, 1, regs[1])

\* cin1/cin2: 0, then for j = 3 .. len(regs)-1: If(r == j, cycles[j], cin)
RECURSIVE CinChain(_, _, _, _, _)
CinChain(r, regs, cycles, j, acc) ==
    IF j > Len(regs) - 1 THEN acc
    ELSE CinChain(r, regs, cycles, j + 1, IF r = j THEN cycles[j + 1] ELSE acc)

\* Faulty variant of Cin: the chain starts one register late
CinLateChain(r, regs, cycles) == CinChain(r, regs, cycles, 4, 0)

Cin(r, regs, cycles) == CinChain(r, regs, cycles, 3, 0)

\* result: ops[0].eval, then for opcode = 1 .. len(ops)-1:
\* If(insn.opcode == opcode, ops[opcode].eval(in1, in2), result)
RECURSIVE ResultChain(_, _, _, _, _)
ResultChain(sel, in1, in2, opcode, acc) ==
    IF opcode > NumOps - 1 THEN acc
    ELSE ResultChain(sel, in1, in2, opcode + 1,
                     IF sel = opcode THEN OpEval(opcode, in1, in2) ELSE acc)

Result(sel, in1, in2) == ResultChain(sel, in1, in2, 1, OpEval(0, in1, in2))

\* Faulty variant of Constraints: an instruction may share its operands' cycle
ConstraintsWeak(c, cin1, cin2, prev) ==
    /\ c >= cin1
    /\ c >= cin2
    /\ c >= prev

\* The three constraints eval appends for an instruction: c is the value of
\* its cycle variable, cin1 and cin2 the cycles of its operands, prev the
\* value of cycles[3 + i - 1].
Constraints(c, cin1, cin2, prev) ==
    /\ c > cin1
    /\ c > cin2
    /\ c >= prev

\* ------------------------------------------------------------ solver oracle
\* Values a model of the solver may give the integer variables of an
\* instruction: the valid ones and Slack more on either side.
OpcodeVals == (0 - Slack) .. (NumOps - 1 + Slack)
RegVals(regs) == (0 - Slack) .. (Len(regs) - 1 + Slack)
CycleVals(m) == 0 .. m

EvalInit == [regs |-> InitRegs, cycles |-> InitCycles]

\* The (value, cycle) an operand selector can resolve to in state s
Operands(s) == {<<In(r, s.regs), Cin(r, s.regs, s.cycles)>> : r \in RegVals(s.regs)}

\* The values the opcode selector can give the result from inputs a, b
Results(a, b) == {Result(sel, a, b) : sel \in OpcodeVals}

\* One iteration of eval's loop from s: every (result, cycle) that values of
\* the instruction's variables satisfying its constraints yield, cycle <= m.
StepOutcomes(s, m) ==
    LET opnds == Operands(s)
        prev  == s.cycles[Len(s.cycles)]
        cs(x) == {c \in CycleVals(m) : Constraints(c, x[1][2], x[2][2], prev)}
        out(x) == IF cs(x) = {} THEN {}
                  ELSE {<<v, c>> : v \in Results(x[1][1], x[2][1]), c \in cs(x)}
    IN  UNION {out(x) : x \in opnds \X opnds}

\* regs.append(result), with the cycle variable's value
EvalStep(s, v, c) == [regs |-> Append(s.regs, v), cycles |-> Append(s.cycles, c)]

\* The (regs, cycles) of every assignment to the variables of n instructions
\* that satisfies the constraints of eval, cycles at most m.
RECURSIVE Assignments(_, _)
Assignments(n, m) ==
    IF n = 0 THEN {EvalInit}
    ELSE UNION { {EvalStep(s, o[1], o[2]) : o \in StepOutcomes(s, m)} :
                 s \in Assignments(n - 1, m) }

\* (regs[-1], cycles[-1]) of the assignments that satisfy the constraints of
\* eval(insns) for n instructions and cycles[-1] <= m
Outcomes(n, m) ==
    {<<o[1], o[2]>> : o \in UNION {StepOutcomes(s, m) : s \in Assignments(n - 1, m)}}

\* ------------------------------------------------------------------ state
VARIABLES
    \* main / solve_code
    code,        \* main's loop variable; NumCodes once the loop is over
    num_insns,   \* solve_code's outer loop variable
    max_cycles,  \* solve_code's inner loop variable
    pc,          \* "solve", "probe", "return", "capped", "halt" in main;
                 \* "model", "printed" in SpecModel
    printed,     \* the blocks printed for the current code: alt, insns, cycles
    queries,     \* the (num_insns, max_cycles) passed to solve for the current code
    log,         \* the codes of the primary programs printed so far, in order
    skipped,     \* codes whose search left the range the oracle answers
    oracle,      \* oracle[n]: the Outcomes of the n-instruction constraint system
    reference,   \* reference[n]: what the programs of n instructions compute
    \* one call of solve under one model of the solver
    regs,        \* eval's regs under the model
    cycles,      \* eval's cycles under the model
    enc,         \* the model's values for the last instruction, and the in1, in2,
                 \* cin1, cin2 eval built from them
    line,        \* the last printed line: opcode, r1, r2 after clamping, cycle c
    dregs        \* the register file of the printed lines, executed in order

vars == <<code, num_insns, max_cycles, pc, printed, queries, log, skipped, oracle, reference,
          regs, cycles, enc, line, dregs>>

drv == <<code, num_insns, max_cycles, printed, queries, log, skipped, oracle, reference>>
mdl == <<regs, cycles, enc, line, dregs>>

\* ------------------------------------------------------------------ solve
\* Faulty variant of CycleBound: a strict bound
CycleBoundStrict(c, m) == c < m

\* solver.add(cycles[-1] <= max_cycles)
CycleBound(c, m) == c <= m

\* solver.check() for solve(code, n, m): the values cycles[-1] takes in the
\* models of the constraints, result == code and the cycle bound; {} is unsat.
\* In every query of solve_code m <= n, so cycles within 0 .. n lose no model.
TotalCycles(c, n, m) ==
    {o[2] : o \in {x \in oracle[n] : x[1] = BitVecVal(c) /\ CycleBound(x[2], m)}}

\* The header of the text solve returns
Block(n, total_cycles, isAlt) == [alt |-> isAlt, insns |-> n, cycles |-> total_cycles]

\* -------------------------------------------------------------- solve_code
\* Faulty variant of LastMaxCycles: range(1, num_insns)
LastMaxCyclesShort(n) == n - 1

\* for max_cycles in range(1, num_insns + 1)
LastMaxCycles(n) == n

\* solve(code, num_insns, max_cycles) returns a result: print it
SolveSat ==
    /\ pc = "solve"
    /\ num_insns <= Len(oracle)
    /\ \E c \in TotalCycles(code, num_insns, max_cycles) :
           printed' = Append(printed, Block(num_insns, c, FALSE))
    /\ queries' = Append(queries, <<num_insns, max_cycles>>)
    /\ log' = Append(log, code)
    /\ pc' = "probe"
    /\ UNCHANGED <<code, num_insns, max_cycles, skipped, oracle, reference>>
    /\ UNCHANGED mdl

\* solve returns None: next max_cycles, or next num_insns
SolveUnsat ==
    /\ pc = "solve"
    /\ num_insns <= Len(oracle)
    /\ TotalCycles(code, num_insns, max_cycles) = {}
    /\ queries' = Append(queries, <<num_insns, max_cycles>>)
    /\ IF max_cycles < LastMaxCycles(num_insns)
         THEN /\ max_cycles' = max_cycles + 1
              /\ num_insns' = num_insns
         ELSE /\ max_cycles' = 1
              /\ num_insns' = num_insns + 1
    /\ UNCHANGED <<code, pc, printed, log, skipped, oracle, reference>>
    /\ UNCHANGED mdl

\* Faulty variant of ProbeCycles: the same bound again
ProbeCyclesSame(m) == m

\* The bound of the alternative query
ProbeCycles(m) == m - 1

\* Faulty variant of Probe: no return, the search goes on with more instructions
ProbeNoReturn ==
    /\ pc = "probe"
    /\ num_insns + 1 <= Len(oracle)
    /\ LET tc == TotalCycles(code, num_insns + 1, max_cycles - 1)
       IN  printed' \in IF tc = {} THEN {printed}
                        ELSE {Append(printed, Block(num_insns + 1, c, TRUE)) : c \in tc}
    /\ queries' = Append(queries, <<num_insns + 1, max_cycles - 1>>)
    /\ num_insns' = num_insns + 1
    /\ max_cycles' = 1
    /\ pc' = "solve"
    /\ UNCHANGED <<code, log, skipped, oracle, reference>>
    /\ UNCHANGED mdl

\* solve(code, num_insns + 1, max_cycles - 1); print the alternative if there
\* is one; return
Probe ==
    /\ pc = "probe"
    /\ num_insns + 1 <= Len(oracle)
    /\ LET tc == TotalCycles(code, num_insns + 1, ProbeCycles(max_cycles))
       IN  printed' \in IF tc = {} THEN {printed}
                        ELSE {Append(printed, Block(num_insns + 1, c, TRUE)) : c \in tc}
    /\ queries' = Append(queries, <<num_insns + 1, ProbeCycles(max_cycles)>>)
    /\ pc' = "return"
    /\ UNCHANGED <<code, num_insns, max_cycles, log, skipped, oracle, reference>>
    /\ UNCHANGED mdl

\* The next query has more instructions than the oracle answers: the search
\* of this code is followed no further.
Cap ==
    /\ \/ pc = "solve" /\ num_insns > Len(oracle)
       \/ pc = "probe" /\ num_insns + 1 > Len(oracle)
    /\ skipped' = IF pc = "solve" THEN skipped \cup {code} ELSE skipped
    /\ pc' = "capped"
    /\ UNCHANGED <<code, num_insns, max_cycles, printed, queries, log, oracle, reference>>
    /\ UNCHANGED mdl

\* ------------------------------------------------------------------- main
\* for code in range(256): solve_code(code)
NextCode ==
    /\ pc \in {"return", "capped"}
    /\ code + 1 < NumCodes
    /\ code' = code + 1
    /\ num_insns' = 1
    /\ max_cycles' = 1
    /\ printed' = <<>>
    /\ queries' = <<>>
    /\ pc' = "solve"
    /\ UNCHANGED <<log, skipped, oracle, reference>>
    /\ UNCHANGED mdl

Finish ==
    /\ pc \in {"return", "capped"}
    /\ code + 1 = NumCodes
    /\ code' = NumCodes
    /\ pc' = "halt"
    /\ UNCHANGED <<num_insns, max_cycles, printed, queries, log, skipped, oracle, reference>>
    /\ UNCHANGED mdl

NoModel ==
    /\ regs = InitRegs
    /\ cycles = InitCycles
    /\ enc = <<>>
    /\ line = <<>>
    /\ dregs = InitRegs

\* The Outcomes of the constraint systems of 1 .. b instructions
RECURSIVE Oracle(_)
Oracle(b) == IF b = 0 THEN <<>> ELSE Append(Oracle(b - 1), Outcomes(b, b))

\* ------------------------------------------------------ reference programs
\* What programs over the catalog compute, by running them: operands are
\* registers already produced, named directly.
RefNext(f) ==
    {OpEval(o, f[x[1] + 1], f[x[2] + 1]) :
        o \in 0 .. (NumOps - 1), x \in (0 .. (Len(f) - 1)) \X (0 .. (Len(f) - 1))}

\* The register files of the programs of n instructions
RECURSIVE RefFiles(_)
RefFiles(n) ==
    IF n = 0 THEN {InitRegs}
    ELSE {g : g \in UNION {{Append(f, v) : v \in RefNext(f)} : f \in RefFiles(n - 1)}}

\* The values the programs of n instructions leave in the last register
RefValues(n) == {v : v \in UNION {RefNext(f) : f \in RefFiles(n - 1)}}

\* One more instruction on a valid schedule within m cycles: its cycle is
\* above the cycles of both operands and not below the previous one.
RefNextRun(s, m) ==
    UNION {{<<OpEval(o, s.file[x[1] + 1], s.file[x[2] + 1]), c>> :
               o \in 0 .. (NumOps - 1),
               c \in {d \in 1 .. m : /\ d > s.cyc[x[1] + 1]
                                     /\ d > s.cyc[x[2] + 1]
                                     /\ d >= s.cyc[Len(s.cyc)]}} :
           x \in (0 .. (Len(s.file) - 1)) \X (0 .. (Len(s.file) - 1))}

\* The programs of n instructions with a valid schedule within m cycles
RECURSIVE RefRuns(_, _)
RefRuns(n, m) ==
    IF n = 0 THEN {[file |-> InitRegs, cyc |-> InitCycles]}
    ELSE {t : t \in UNION {{[file |-> Append(s.file, p[1]), cyc |-> Append(s.cyc, p[2])] :
                               p \in RefNextRun(s, m)} :
                           s \in RefRuns(n - 1, m)}}

\* The <<value, last cycle>> pairs of the scheduled programs of n instructions
RefTotals(n) == {p : p \in UNION {RefNextRun(s, n) : s \in RefRuns(n - 1, n)}}

RECURSIVE Reference(_)
Reference(b) ==
    IF b = 0 THEN <<>>
    ELSE Append(Reference(b - 1), [vals |-> RefValues(b), runs |-> RefTotals(b)])

\* main starts; the oracle answers the queries of up to b instructions
InitMain(b) ==
    /\ code = 0
    /\ num_insns = 1
    /\ max_cycles = 1
    /\ pc = "solve"
    /\ printed = <<>>
    /\ queries = <<>>
    /\ log = <<>>
    /\ skipped = {}
    /\ oracle = Oracle(b)
    /\ reference = Reference(b)
    /\ NoModel

Init == InitMain(MaxInsns)

Next == SolveSat \/ SolveUnsat \/ Probe \/ Cap \/ NextCode \/ Finish

Spec == Init /\ [][Next]_vars

\* The same program, the oracle answering one more instruction
InitDeep == InitMain(MaxInsns + 1)

SpecDeep == InitDeep /\ [][Next]_vars

\* ---------------------------------------------------------------- decoder
\* if opcode < 0 or opcode >= len(ops): opcode = 0
ClampOpcode(opcode) == IF opcode < 0 \/ opcode >= NumOps THEN 0 ELSE opcode

\* Faulty variant of ClampReg: the newest temporary counts as out of range
ClampRegEarly(r, i) == IF r < 0 \/ r >= 2 + i THEN 0 ELSE r

\* if r < 0 or r >= 3 + i: r = 0
ClampReg(r, i) == IF r < 0 \/ r >= 3 + i THEN 0 ELSE r

\* 'ABC'[r] or f't{r - 3}'
RegName(r) == IF r < 3 THEN << <<"A", "B", "C">>[r + 1] >> ELSE <<"t", r - 3>>

\* Faulty variant of Show: ornot printed without the complement
ShowOrnotAsOr(opcode, a, b) ==
    CASE ops[opcode + 1] = "set0"   -> [text |-> "0",        args |-> <<>>]
      [] ops[opcode + 1] = "set1"   -> [text |-> "-1",       args |-> <<>>]
      [] ops[opcode + 1] = "not"    -> [text |-> "~{a}",     args |-> <<a>>]
      [] ops[opcode + 1] = "and"    -> [text |-> "{a} & {b}",  args |-> <<a, b>>]
      [] ops[opcode + 1] = "or"     -> [text |-> "{a} | {b}",  args |-> <<a, b>>]
      [] ops[opcode + 1] = "xor"    -> [text |-> "{a} ^ {b}",  args |-> <<a, b>>]
      [] ops[opcode + 1] = "andnot" -> [text |-> "{a} & ~{b}", args |-> <<a, b>>]
      [] ops[opcode + 1] = "ornot"  -> [text |-> "{a} | {b}",  args |-> <<a, b>>]
      [] ops[opcode + 1] = "xornot" -> [text |-> "{a} ^ ~{b}", args |-> <<a, b>>]

\* ops[opcode].show(a, b): the text and the operands that appear in it
Show(opcode, a, b) ==
    CASE ops[opcode + 1] = "set0"   -> [text |-> "0",        args |-> <<>>]
      [] ops[opcode + 1] = "set1"   -> [text |-> "-1",       args |-> <<>>]
      [] ops[opcode + 1] = "not"    -> [text |-> "~{a}",     args |-> <<a>>]
      [] ops[opcode + 1] = "and"    -> [text |-> "{a} & {b}",  args |-> <<a, b>>]
      [] ops[opcode + 1] = "or"     -> [text |-> "{a} | {b}",  args |-> <<a, b>>]
      [] ops[opcode + 1] = "xor"    -> [text |-> "{a} ^ {b}",  args |-> <<a, b>>]
      [] ops[opcode + 1] = "andnot" -> [text |-> "{a} & ~{b}", args |-> <<a, b>>]
      [] ops[opcode + 1] = "ornot"  -> [text |-> "{a} | ~{b}", args |-> <<a, b>>]
      [] ops[opcode + 1] = "xornot" -> [text |-> "{a} ^ ~{b}", args |-> <<a, b>>]

\* One iteration of solve's printing loop for instruction i under the model
\* values (opcode, r1, r2, c): f't{i} = {show(r1, r2)};\t// {c}'
Decode(i, opcode, r1, r2, c) ==
    LET o  == ClampOpcode(opcode)
        x1 == ClampReg(r1, i)
        x2 == ClampReg(r2, i)
    IN  [t |-> i, opcode |-> o, r1 |-> x1, r2 |-> x2,
         expr |-> Show(o, RegName(x1), RegName(x2)), c |-> c]


\* ------------------------------------------------- meaning of a printed line
\* Index in the register file [A, B, C, t0, t1, ...] of a printed name
NameIndex(name) ==
    IF name[1] = "t" THEN 3 + name[2]
    ELSE CHOOSE j \in 0 .. 2 : <<"A", "B", "C">>[j + 1] = name[1]

\* Value of a printed expression over the register file file, as 8-bit C
TextValue(expr, file) ==
    LET a == file[NameIndex(expr.args[1]) + 1]
        b == file[NameIndex(expr.args[2]) + 1]
    IN  CASE expr.text = "0"          -> {}
          [] expr.text = "-1"         -> BitIdx
          [] expr.text = "~{a}"       -> BitIdx \ a
          [] expr.text = "{a} & {b}"  -> a \cap b
          [] expr.text = "{a} | {b}"  -> a \cup b
          [] expr.text = "{a} ^ {b}"  -> (a \ b) \cup (b \ a)
          [] expr.text = "{a} & ~{b}" -> a \cap (BitIdx \ b)
          [] expr.text = "{a} | ~{b}" -> a \cup (BitIdx \ b)
          [] expr.text = "{a} ^ ~{b}" -> {k \in BitIdx : (k \in a) # (k \notin b)}

\* Annotated cycle of the register a printed operand index names
CycleOf(r, cyc) == IF r < 3 THEN 0 ELSE cyc[r + 1]

\* ------------------------------------------- one model of the solver at work
\* The model's values for the variables of instruction i = len(regs) - 3:
\* eval's loop body and solve's printing of that instruction.
ModelStep ==
    /\ pc = "model"
    /\ Len(regs) - 3 < MaxLen
    /\ \E opcode \in OpcodeVals, r1 \in RegVals(regs), r2 \in RegVals(regs),
          c \in CycleVals(MaxLen) :
          LET i    == Len(regs) - 3
              in1  == In(r1, regs)
              in2  == In(r2, regs)
              cin1 == Cin(r1, regs, cycles)
              cin2 == Cin(r2, regs, cycles)
              ln   == Decode(i, opcode, r1, r2, c)
          IN  /\ Constraints(c, cin1, cin2, cycles[Len(cycles)])
              /\ regs' = Append(regs, Result(opcode, in1, in2))
              /\ cycles' = Append(cycles, c)
              /\ enc' = [opcode |-> opcode, r1 |-> r1, r2 |-> r2,
                          in1 |-> in1, in2 |-> in2, cin1 |-> cin1, cin2 |-> cin2]
              /\ line' = ln
              /\ dregs' = Append(dregs, TextValue(ln.expr, dregs))
    /\ UNCHANGED pc
    /\ UNCHANGED drv

\* The integer of an 8-bit vector (as_long)
RECURSIVE AsLongFrom(_, _)
AsLongFrom(v, k) ==
    IF k = Width THEN 0
    ELSE (IF k \in v THEN 2 ^ k ELSE 0) + AsLongFrom(v, k + 1)

AsLong(v) == AsLongFrom(v, 0)

\* The model is one of solve(c, n, m): result == c and cycles[-1] <= m hold
\* in it, so solver.check() is sat and solve returns the printed text with
\* the header for c, n and total_cycles = cycles[-1].
ModelChecked ==
    /\ pc = "model"
    /\ Len(regs) > 3
    /\ \E m \in 1 .. MaxLen :
          LET c == AsLong(regs[Len(regs)])
              n == Len(regs) - 3
          IN  /\ BitVecVal(c) = regs[Len(regs)]
              /\ CycleBound(cycles[Len(cycles)], m)
              /\ code' = c
              /\ num_insns' = n
              /\ max_cycles' = m
              /\ printed' = <<Block(n, cycles[Len(cycles)], FALSE)>>
    /\ pc' = "printed"
    /\ UNCHANGED <<queries, log, skipped, oracle, reference>>
    /\ UNCHANGED mdl

InitModel ==
    /\ pc = "model"
    /\ code = 0
    /\ num_insns = 0
    /\ max_cycles = 0
    /\ printed = <<>>
    /\ queries = <<>>
    /\ log = <<>>
    /\ skipped = {}
    /\ oracle = <<>>
    /\ reference = <<>>
    /\ NoModel

NextModel == ModelStep \/ ModelChecked

SpecModel == InitModel /\ [][NextModel]_vars

\* main under the fairness of a sequential program: it takes its next step
SpecFair == Init /\ [][Next]_vars /\ WF_vars(Next)

\* ----------------------------------------------------------------- queries
\* The queries of solve_code's double loop up to (n, m), in order
RECURSIVE ScanFrom(_, _, _, _)
ScanFrom(a, b, n, m) ==
    IF a = n /\ b = m THEN << <<a, b>> >>
    ELSE << <<a, b>> >> \o (IF b < a THEN ScanFrom(a, b + 1, n, m)
                                   ELSE ScanFrom(a + 1, 1, n, m))

Scan(n, m) == ScanFrom(1, 1, n, m)

\* The values programs of n instructions compute within m cycles
RefSchedValues(n, m) == {p[1] : p \in {q \in reference[n].runs : q[2] <= m}}

InMain == pc \in {"solve", "probe", "return", "capped"}

\* The codes no program of up to three instructions computes
HardCodes == {22, 23, 41, 43, 73, 77, 97, 104, 107, 109, 113, 121, 134, 142,
              146, 148, 151, 158, 178, 182, 212, 214, 232, 233}

\* ------------------------------------------------------------------ claims

\* C1: every program solve prints for a code, whatever model of the query
\* the solver returned, leaves that code in the last register when its
\* lines are executed in order on [A, B, C].
C1_Soundness ==
    pc = "printed" =>
        /\ Len(dregs) = 3 + num_insns
        /\ dregs[Len(dregs)] = BitVecVal(code)

\* a two-instruction model with an out-of-range selector, printed
C1_Witness ==
    /\ pc = "printed"
    /\ num_insns = 2
    /\ enc.r1 = 3
    /\ enc.r2 = 4
    /\ enc.opcode = 7

\* C2: while solve_code tries num_insns instructions for a code, and so
\* when it prints a primary of that many, no program of fewer catalog
\* instructions computes the code.
C2_MinInsns ==
    InMain =>
        /\ Len(printed) >= 1 => printed[1].insns = num_insns
        /\ \A n \in 1 .. (num_insns - 1) : BitVecVal(code) \notin reference[n].vals

\* a primary of two instructions has been printed
C2_Witness ==
    /\ pc = "probe"
    /\ num_insns = 2
    /\ printed[1].insns = 2

\* C3: the cycle count the primary's header reports is the max_cycles of
\* the first satisfiable query, and no program of as many instructions
\* computes the code on a valid schedule of fewer cycles.
C3_MinCycles ==
    (InMain /\ Len(printed) >= 1) =>
        /\ printed[1].cycles = max_cycles
        /\ \A c \in 1 .. (printed[1].cycles - 1) :
               BitVecVal(code) \notin RefSchedValues(printed[1].insns, c)

\* a primary of two cycles has been printed
C3_Witness ==
    /\ pc = "probe"
    /\ printed[1].cycles = 2

\* C4: in every printed program the cycle of each line is above the cycles
\* of both its printed operands (inputs 0, t_k its own annotation), the
\* annotated cycles are at least 1 and non-decreasing, and the header's
\* total is the last and largest of them.
C4_Dependency ==
    Len(regs) > 3 =>
        /\ line.c = cycles[Len(cycles)]
        /\ line.c > CycleOf(line.r1, cycles)
        /\ line.c > CycleOf(line.r2, cycles)
        /\ \A k \in 4 .. Len(cycles) :
               /\ cycles[k] >= 1
               /\ cycles[k] >= cycles[k - 1]
               /\ cycles[k] <= cycles[Len(cycles)]
        /\ pc = "printed" => printed[1].cycles = cycles[Len(cycles)]

\* the second line uses t0 twice, one cycle after it
C4_Witness ==
    /\ Len(regs) = 5
    /\ line.r1 = 3
    /\ line.r2 = 3
    /\ line.c = 2
    /\ cycles[4] = 1

\* C5: main prints the primary programs in increasing code order, one per
\* code whose search stays within the instructions the oracle answers, each
\* followed by at most one alternative, and reaches the end of its loop.
C5_Safety ==
    LET logged == {log[k] : k \in 1 .. Len(log)}
    IN  /\ \A k \in 1 .. (Len(log) - 1) : log[k] < log[k + 1]
        /\ Len(printed) <= 2
        /\ Len(printed) >= 1 => ~printed[1].alt
        /\ Len(printed) = 2 => printed[2].alt
        /\ pc \in {"probe", "return"} => (Len(printed) >= 1 /\ log[Len(log)] = code)
        /\ InMain => \A k \in 0 .. (code - 1) : (k \in logged) # (k \in skipped)
        /\ pc = "halt" => Len(log) + Cardinality(skipped) = NumCodes

C6_Original == InMain => num_insns <= 3

\* C6: every code but the 24 HardCodes gets a primary of at most 3
\* instructions, which is a program that computes it; no program of up to 3
\* instructions computes a hard code, and for those solve_code goes on to
\* num_insns = 4.
C6_Amended ==
    InMain =>
        /\ num_insns > 3 =>
               /\ code \in HardCodes
               /\ printed = <<>>
               /\ \A n \in 1 .. 3 : BitVecVal(code) \notin reference[n].vals
        /\ (code \notin HardCodes /\ pc \in {"probe", "return", "capped"}) =>
               /\ Len(printed) >= 1
               /\ printed[1].insns <= 3
               /\ BitVecVal(code) \in reference[printed[1].insns].vals
        /\ (code \in HardCodes /\ pc = "capped") => num_insns = 4

\* the search of a hard code has reached four instructions
C6_Witness ==
    /\ code \in HardCodes
    /\ pc = "solve"
    /\ num_insns = 4

\* C7 as stated: for 0x89 a primary of 4 instructions and 4 cycles, then an
\* alternative of 5 instructions and 3 cycles.
C7_Original ==
    (code = 137 /\ Len(printed) >= 1) =>
        /\ printed[1] = Block(4, 4, FALSE)
        /\ pc = "return" => printed = <<Block(4, 4, FALSE), Block(5, 3, TRUE)>>

\* C7: for 0x89 solve_code prints a primary of 3 instructions and 2 cycles,
\* found at the query (3, 2).
C7_Amended ==
    (code = 137 /\ InMain) =>
        /\ num_insns <= 3
        /\ pc \in {"probe", "return", "capped"} =>
               /\ Len(printed) >= 1
               /\ printed[1] = Block(3, 2, FALSE)
               /\ queries[Len(queries)] = <<3, 2>>

\* the primary of 0x89 has just been printed
C7_Witness ==
    /\ code = 137
    /\ pc = "probe"

\* C8: for the codes 0x00 and 0xFF the primary has 1 instruction and 1
\* cycle, for 0xF0 it has 1 instruction, found at the first query, and none
\* of the three gets an alternative.
C8_Concrete ==
    (InMain /\ code \in {0, 255, 240}) =>
        /\ num_insns = 1
        /\ max_cycles = 1
        /\ pc # "capped"
        /\ pc \in {"probe", "return"} => printed = <<Block(1, 1, FALSE)>>

\* solve_code has returned for 0xF0
C8_Witness ==
    /\ code = 240
    /\ pc = "return"

\* C9: for every value of the selectors, in range or not, the operands and
\* operand cycles of eval's chains are those of the registers the printed
\* line names, and the result eval appends is the printed opcode applied to
\* them.
C9_Agree ==
    Len(regs) > 3 =>
        /\ line.opcode \in 0 .. (NumOps - 1)
        /\ line.r1 \in 0 .. (Len(regs) - 2)
        /\ line.r2 \in 0 .. (Len(regs) - 2)
        /\ enc.in1 = regs[line.r1 + 1]
        /\ enc.in2 = regs[line.r2 + 1]
        /\ enc.cin1 = CycleOf(line.r1, cycles)
        /\ enc.cin2 = CycleOf(line.r2, cycles)
        /\ regs[Len(regs)] = OpEval(line.opcode, regs[line.r1 + 1], regs[line.r2 + 1])

\* a second instruction whose three selectors are all out of range
C9_Witness ==
    /\ Len(regs) = 5
    /\ enc.opcode = NumOps
    /\ enc.r1 = 4
    /\ enc.r2 = 0 - 1

\* C10: once solve_code returns, its queries were the scan up to the first
\* satisfiable (N, C) and then (N + 1, C - 1) alone; an alternative is
\* printed after the primary exactly if a program of N + 1 instructions
\* computes the code within C - 1 cycles, and then has one more instruction
\* and fewer cycles; a primary of 1 cycle has no alternative.
C10_Probe ==
    /\ pc = "probe" => queries = Scan(num_insns, max_cycles)
    /\ pc = "return" =>
        LET n == printed[1].insns
            c == printed[1].cycles
        IN  /\ queries = Append(Scan(n, c), <<n + 1, c - 1>>)
            /\ (Len(printed) = 2) = (BitVecVal(code) \in RefSchedValues(n + 1, c - 1))
            /\ Len(printed) = 2 =>
                   /\ printed[2].alt
                   /\ printed[2].insns = n + 1
                   /\ printed[2].cycles < c
            /\ c = 1 => Len(printed) = 1

\* solve_code has returned after probing below a primary of two cycles
C10_Witness ==
    /\ pc = "return"
    /\ printed[1].cycles = 2
    /\ queries[Len(queries)] = <<3, 1>>

====
